---- MODULE Spec2Model ----
(***************************************************************************)
(* A model of sqldb-rs: the byte store behind one Mutex (storage/mvcc.rs,   *)
(* storage/engine.rs) and the SQL engine on top of it (sql/engine,          *)
(* sql/executor, sql/plan).                                                 *)
(*                                                                         *)
(* Bytes are numbers 0..255, byte strings are sequences of bytes.          *)
(* Three kinds of client drive the store:                                  *)
(*  - threads that own one transaction handle at a time and call begin,    *)
(*    set, get, commit and rollback, each method one step (Spec), also on  *)
(*    handles that have ended (MisuseSpec);                                *)
(*  - the same threads with every method in its steps                      *)
(*      call -> engine.lock() -> engine.get / set / scan_prefix -> return  *)
(*    (LockSpec, and FairLockSpec with every thread scheduled);            *)
(*  - SQL sessions running CREATE TABLE, INSERT and SELECT through         *)
(*    Session::execute, one step per store operation (SqlSpec).            *)
(* Beside them: a client of the bare engine (EngineSpec), the clients of   *)
(* Spec with commit's result kept (CommitSpec) or with the process         *)
(* stopping and restarting (CrashSpec), and one KVTransaction called       *)
(* method by method (KvSpec, and KvScanSpec with scan_table).              *)
(***************************************************************************)
EXTENDS Integers, Sequences, FiniteSets, TLC

\* ---------------------------------------------------------------- bounds
MaxTxns == 2
MaxOps  == 3
MaxStmts == 3

\* Two client threads share one Mvcc (Mvcc::clone hands out the same Arc).
Threads == {1, 2}
TxnIds  == 1..MaxTxns

\* The keys and values the raw clients pass: the empty byte string and "a"
\* as keys, the empty byte string and "1" as values.
RawKeys == { <<>>, <<97>> }
RawVals == { <<>>, <<49>> }

VARIABLES
    store,      \* the engine's data: a map from byte string to byte string
    lock,       \* the Mutex around the engine: 0 when free, else the holder
    poisoned,   \* the Mutex's poison flag
    pc,         \* per thread: position inside the method it is running
    call,       \* per thread: the method it is running and its arguments
    last,       \* history: the latest get or set call and what it returned,
                \* forgotten when its handle commits or rolls back after it
    cur,        \* per thread: the transaction handle it owns (0: none)
    nops,       \* how many get and set calls the clients have made
    nextTxn,    \* how many handles begin() has made so far
    status,     \* history: per handle, which of begin/commit/rollback ran
    snap,       \* history: per handle, the status of every handle at its begin
    wset,       \* history: per handle, the keys it has set
    seen,       \* history: the first get call of the run and what it returned
    lastSet,    \* history: per key, the handle and value of the latest set
    stmt,       \* per session: the statement Session::execute is running
    nstmts,     \* how many statements the sessions have been given
    fin,        \* history: the latest statement to return, and its result
    done,       \* history: what the statements that returned Ok have done
    log         \* history: the set and delete calls made on the engine, in order

vars == << store, lock, poisoned, pc, call, last, cur, nops, nextTxn,
           status, snap, wset, seen, lastSet, stmt, nstmts, fin, done, log >>

\* The state of the SQL sessions, and the state only the key-value clients use.
sqlvars == << stmt, nstmts, fin, done >>

kvvars == << call, last, cur, nops, nextTxn, status, snap, wset, seen, lastSet >>

\* The history only the clients of the bare engine use.
engvars == << log >>

\* ------------------------------------------------------- Result<Option<..>>
NoRet     == [tag |-> "NoRet", opt |-> "",     val |-> <<>>]
OkUnit    == [tag |-> "Ok",    opt |-> "Unit", val |-> <<>>]
OkNone    == [tag |-> "Ok",    opt |-> "None", val |-> <<>>]
OkSome(v) == [tag |-> "Ok",    opt |-> "Some", val |-> v]
Err(e)    == [tag |-> "Err",   opt |-> e,      val |-> <<>>]
Panic     == [tag |-> "Panic", opt |-> "not yet implemented", val |-> <<>>]

\* A method call: the handle, the method, its arguments, what it returned,
\* and for a get whether the latest writer of the key had committed by then.
NoCall == [txn |-> 0, kind |-> "none", key |-> <<>>, val |-> <<>>,
           ret |-> NoRet, wcommitted |-> FALSE]
Called(x, kind, key, value, r, wc) ==
    [txn |-> x, kind |-> kind, key |-> key, val |-> value,
     ret |-> r, wcommitted |-> wc]

\* ------------------------------------------------ storage/engine.rs: Engine
\* The in-memory engine is an ordered map of byte strings.
EmptyStore == << >>

\* A set that keeps the value a key already has.
Engine_set_if_absent(s, key, value) ==
    [k \in (DOMAIN s) \cup {key} |-> IF k \in DOMAIN s THEN s[k] ELSE value]

Engine_set(s, key, value) ==
    [k \in (DOMAIN s) \cup {key} |-> IF k = key THEN value ELSE s[k]]

Engine_get(s, key) ==
    IF key \in DOMAIN s THEN OkSome(s[key]) ELSE OkNone

Engine_delete(s, key) ==
    [k \in (DOMAIN s) \ {key} |-> s[k]]

\* ------------------------------------------- storage/mvcc.rs: MvccTransaction
\* A Mutex that never makes a caller wait.
LockAlwaysFree(l) == TRUE

\* self.engine.lock(): the caller gets the guard only when nobody holds it.
LockIsFree(l) == l = 0

\* lock()? on a poisoned Mutex is an Err, which `?` returns.
LockResult(p) == IF p THEN Err("Poisoned") ELSE OkUnit

\* A set that takes an empty value for a deletion.
MvccSetStoreEmptyDeletes(s, key, value) ==
    IF value = <<>> THEN Engine_delete(s, key) ELSE Engine_set(s, key, value)

\* set: engine.set(key, value) under the guard; the store after it.
MvccSetStore(s, key, value) == Engine_set(s, key, value)

\* set: what it returns.
MvccSetResult(s, key, value) == OkUnit

\* get: engine.get(key) under the guard.
MvccGetResult(s, key) == Engine_get(s, key)

\* A commit that re-validates and finds a conflict.
MvccCommitConflict == Err("Conflict")

\* commit and rollback return Ok(()) and touch nothing.
MvccCommitResult == OkUnit
MvccRollbackResult == OkUnit

\* Engine::scan_prefix: the trait's default body is todo!(), which panics.
Engine_scan_prefix(s, prefix) == Panic

\* scan_prefix: engine.scan_prefix(prefix) under the guard; the loop over the
\* iterator is never reached.
MvccScanPrefixResult(s, prefix) == Engine_scan_prefix(s, prefix)

\* ------------------------------------------------------------ SQL values
\* types::Value and types::DataType. A Value is a record with the same
\* fields in every variant; the unused fields are zero and empty.
Null == [tag |-> "Null", int |-> 0, str |-> << >>]

Integer(i) == [tag |-> "Integer", int |-> i, str |-> << >>]

String(s) == [tag |-> "String", int |-> 0, str |-> s]

\* Value::from_expression: a constant expression is its value.
Value_from_expression(expr) ==
    CASE expr.tag = "Null" -> Null
      [] expr.tag = "Integer" -> Integer(expr.int)
      [] expr.tag = "String" -> String(expr.str)

\* Value::datatype: None (the empty sequence) for NULL, else the type.
Value_datatype(v) == IF v.tag = "Null" THEN << >> ELSE << v.tag >>

\* An Option is a sequence of length at most one.
None == << >>

Some(x) == << x >>

\* ------------------------------------------------------- bincode encoding
\* Little-endian bytes of a natural number.
RECURSIVE LE(_, _)
LE(n, w) == IF w = 0 THEN << >> ELSE << n % 256 >> \o LE(n \div 256, w - 1)

RECURSIVE Flatten(_)
Flatten(ss) == IF ss = << >> THEN << >> ELSE Head(ss) \o Flatten(Tail(ss))

\* A String or Vec<u8>: the length as u64, then the bytes.
SerializeString(s) == LE(Len(s), 8) \o s

DataTypeIndex(dt) ==
    CASE dt = "Boolean" -> 0 [] dt = "Integer" -> 1 [] dt = "Float" -> 2 [] dt = "String" -> 3

\* A Value: the variant index as u32, then the payload. The integers of the
\* model are not negative.
SerializeValue(v) ==
    CASE v.tag = "Null" -> LE(0, 4)
      [] v.tag = "Integer" -> LE(2, 4) \o LE(v.int, 8)
      [] v.tag = "String" -> LE(4, 4) \o SerializeString(v.str)

\* A Row, Vec<Value>: the length as u64, then the values.
SerializeRow(row) ==
    LE(Len(row), 8) \o Flatten([i \in 1..Len(row) |-> SerializeValue(row[i])])

\* Key::Table(name) and Key::Row(name, value).
Key_Table(name) == LE(0, 4) \o SerializeString(name)

Key_Row(name, v) == LE(1, 4) \o SerializeString(name) \o SerializeValue(v)

\* KeyPrefix::Row(name).
KeyPrefix_Row(name) == LE(1, 4) \o SerializeString(name)

\* schema::Column and schema::Table, fields in the order the planner gives.
SerializeColumn(c) ==
    SerializeString(c.name) \o LE(DataTypeIndex(c.datatype), 4)
        \o << IF c.nullable THEN 1 ELSE 0 >>
        \o (IF c.default = None THEN << 0 >>
            ELSE << 1 >> \o SerializeValue(c.default[1]))

SerializeTable(table) ==
    SerializeString(table.name) \o LE(Len(table.columns), 8)
        \o Flatten([i \in 1..Len(table.columns) |-> SerializeColumn(table.columns[i])])

\* ------------------------------------------------------------ statements
\* The statements the sessions are given, as the parser hands them over.
TableNames == { <<116, 49>> }

ColA == [name |-> <<97>>, datatype |-> "Integer", nullable |-> Some(FALSE), default |-> None]

ColB == [name |-> <<98>>, datatype |-> "String", nullable |-> None, default |-> None]

AstColumns == { << >>, << ColA >>, << ColA, ColB >> }

ExprRows ==
    { << Integer(1) >>, << Null >>, << String(<<120>>) >>,
      << Integer(1), String(<<120>>) >> }

InsertValues ==
    { << r >> : r \in ExprRows } \cup { << r, q >> : r \in { << Integer(1) >> }, q \in ExprRows }

InsertColumns == { << >>, << <<97>> >> }

\* Planner::build_statement for one column of CREATE TABLE.
Planner_build_column(col) ==
    LET nullable == IF col.nullable = None THEN TRUE ELSE col.nullable[1]
        default == IF col.default # None THEN Some(Value_from_expression(col.default[1]))
                   ELSE IF nullable THEN Some(Null)
                   ELSE None
    IN [name |-> col.name, datatype |-> col.datatype,
        nullable |-> nullable, default |-> default]

Planner_build_table(name, columns) ==
    [name |-> name, columns |-> [i \in 1..Len(columns) |-> Planner_build_column(columns[i])]]

\* Every schema a CREATE TABLE of the model can store.
Tables == { Planner_build_table(n, cs) : n \in TableNames, cs \in AstColumns }

NoTable == [name |-> << >>, columns |-> << >>]

\* The encoding of every schema.
EncodedTables == [tb \in Tables |-> SerializeTable(tb)]

\* bincode::deserialize of a stored schema: the Table whose encoding it is.
DeserializeTable(bytes) ==
    IF \E tb \in Tables : EncodedTables[tb] = bytes
    THEN CHOOSE tb \in Tables : EncodedTables[tb] = bytes
    ELSE NoTable

\* --------------------------------------- sql/engine/kv.rs: KVTransaction
\* self.txn.get(key) and self.txn.set(key, value) as the SQL layer sees
\* them: one hold of the Mutex each.
TxnGet(s, p, key) ==
    IF LockResult(p).tag = "Err" THEN LockResult(p) ELSE MvccGetResult(s, key)

TxnSetResult(s, p, key, value) ==
    IF LockResult(p).tag = "Err" THEN LockResult(p) ELSE MvccSetResult(s, key, value)

TxnSetStore(s, p, key, value) ==
    IF TxnSetResult(s, p, key, value).tag = "Ok" THEN MvccSetStore(s, key, value) ELSE s

\* get_table: the schema stored under Key::Table(name), if any.
KV_get_table(s, p, name) ==
    LET r == TxnGet(s, p, Key_Table(name))
    IN [tag |-> r.tag,
        err |-> IF r.tag = "Err" THEN r.opt ELSE "",
        found |-> r.tag = "Ok" /\ r.opt = "Some",
        table |-> IF r.tag = "Ok" /\ r.opt = "Some" THEN DeserializeTable(r.val) ELSE NoTable]

\* must_get_table: a missing table is an error.
must_get_table(s, p, name) ==
    LET r == KV_get_table(s, p, name)
    IN IF r.tag = "Ok" /\ ~r.found
       THEN [r EXCEPT !.tag = "Err", !.err = "table does not exist"]
       ELSE r

\* A create_table that does not look for the table.
KV_create_table_unguarded(found, table) ==
    IF found.tag = "Err" THEN found.err
    ELSE IF table.columns = << >> THEN "table has no columns"
    ELSE ""

\* create_table before its set: the error it returns, "" when it goes on.
KV_create_table_check(found, table) ==
    IF found.tag = "Err" THEN found.err
    ELSE IF found.found THEN "table already exists"
    ELSE IF table.columns = << >> THEN "table has no columns"
    ELSE ""

\* A loop body that does not compare the data types.
ColumnCheckNullOnly(table, row, i) ==
    IF i > Len(row) THEN "index out of bounds"
    ELSE IF Value_datatype(row[i]) = None /\ ~table.columns[i].nullable
         THEN "column cannot be null" ELSE ""

\* create_row, the loop over the table's columns: what happens at column i.
ColumnCheck(table, row, i) ==
    IF i > Len(row) THEN "index out of bounds"
    ELSE IF Value_datatype(row[i]) = None
         THEN IF table.columns[i].nullable THEN "" ELSE "column cannot be null"
         ELSE IF Value_datatype(row[i])[1] # table.columns[i].datatype
              THEN "column type mismatch" ELSE ""

\* create_row before its set: the first column that fails decides; row[0]
\* of an empty row is out of bounds. "" when it goes on to set.
KV_create_row_check(table, row) ==
    LET bad == { i \in 1..Len(table.columns) : ColumnCheck(table, row, i) # "" }
    IN IF bad # {} THEN ColumnCheck(table, row, CHOOSE i \in bad : \A j \in bad : i <= j)
       ELSE IF row = << >> THEN "index out of bounds"
       ELSE ""

\* ------------------------------------------- sql/executor/mutation.rs
\* pad_row: the row, then the defaults of the columns it does not reach.
pad_row(table, row) ==
    LET rest == { i \in 1..Len(table.columns) : i > Len(row) }
    IN IF \E i \in rest : table.columns[i].default = None
       THEN [tag |-> "Err", err |-> "No default Value for column", row |-> << >>]
       ELSE [tag |-> "Ok", err |-> "",
             row |-> [i \in 1..(IF Len(row) > Len(table.columns) THEN Len(row)
                                ELSE Len(table.columns)) |->
                         IF i <= Len(row) THEN row[i] ELSE table.columns[i].default[1]]]

\* make_row: for every column of the table the value given under its name
\* (the last one, when the name is given twice), else its default.
make_row(table, columns, values) ==
    LET given(n) == { i \in 1..Len(columns) : columns[i] = n }
        lastOf(n) == CHOOSE i \in given(n) : \A j \in given(n) : j <= i
        missing == { i \in 1..Len(table.columns) :
                        /\ given(table.columns[i].name) = {}
                        /\ table.columns[i].default = None }
    IN IF Len(columns) # Len(values)
       THEN [tag |-> "Err", err |-> "columns and values num mismatch", row |-> << >>]
       ELSE IF missing # {}
       THEN [tag |-> "Err", err |-> "No value given for the column", row |-> << >>]
       ELSE [tag |-> "Ok", err |-> "",
             row |-> [i \in 1..Len(table.columns) |->
                         IF given(table.columns[i].name) # {}
                         THEN values[lastOf(table.columns[i].name)]
                         ELSE table.columns[i].default[1]]]

\* Insert::execute, one row: the expressions to values, then padded or
\* arranged by column names.
InsertRowOf(table, columns, exprs) ==
    LET row == [i \in 1..Len(exprs) |-> Value_from_expression(exprs[i])]
    IN IF columns = << >> THEN pad_row(table, row) ELSE make_row(table, columns, row)

\* --------------------------------------------- executor::ResultSet, Result
NoResult == [tag |-> "none", kind |-> "", count |-> 0, rows |-> << >>, err |-> ""]

OkCreateTable == [tag |-> "Ok", kind |-> "CreateTable", count |-> 0, rows |-> << >>, err |-> ""]

OkInsert(n) == [tag |-> "Ok", kind |-> "Insert", count |-> n, rows |-> << >>, err |-> ""]

OkScan(rows) == [tag |-> "Ok", kind |-> "Scan", count |-> 0, rows |-> rows, err |-> ""]

OkDone == [tag |-> "Ok", kind |-> "", count |-> 0, rows |-> << >>, err |-> ""]

ErrResult(e) == [tag |-> "Err", kind |-> "", count |-> 0, rows |-> << >>, err |-> e]

PanicResult(e) == [tag |-> "Panic", kind |-> "", count |-> 0, rows |-> << >>, err |-> e]

\* bincode::deserialize of a stored row: the Row whose encoding it is.
RowValues == { Null, Integer(1), String(<<120>>) }

Rows == { << >> } \cup { << v >> : v \in RowValues } \cup (RowValues \X RowValues)

DeserializeRow(bytes) == CHOOSE row \in Rows : SerializeRow(row) = bytes

\* ------------------------------------------------ a statement in progress
NoStmt ==
    [kind |-> "none", name |-> << >>, schema |-> NoTable, columns |-> << >>,
     values |-> << >>, table |-> NoTable, row |-> << >>, written |-> << >>,
     pre |-> EmptyStore, alone |-> TRUE, want |-> << >>]

NoFin ==
    [sess |-> 0, kind |-> "none", name |-> << >>, schema |-> NoTable, row |-> << >>,
     ret |-> NoResult,
     pre |-> EmptyStore, post |-> EmptyStore, alone |-> TRUE, want |-> << >>]

NoDone == [creates |-> [n \in TableNames |-> 0], rows |-> << >>]

\* ------------------------------------------------------------------- Init
Init ==
    /\ store = EmptyStore
    /\ lock = 0
    /\ poisoned = FALSE
    /\ pc = [t \in Threads |-> "idle"]
    /\ call = [t \in Threads |-> NoCall]
    /\ last = NoCall
    /\ cur = [t \in Threads |-> 0]
    /\ nops = 0
    /\ nextTxn = 0
    /\ status = [x \in TxnIds |-> "none"]
    /\ snap = [x \in TxnIds |-> [y \in TxnIds |-> "none"]]
    /\ wset = [x \in TxnIds |-> {}]
    /\ seen = NoCall
    /\ lastSet = << >>
    /\ stmt = [t \in Threads |-> NoStmt]
    /\ nstmts = 0
    /\ fin = NoFin
    /\ done = NoDone
    /\ log = << >>

\* ---------------------------------------------------------------- actions
\* Mvcc::begin -> MvccTransaction::begin: a new handle on the shared engine.
Begin(t) ==
    /\ pc[t] = "idle"
    /\ IF cur[t] = 0 THEN TRUE ELSE status[cur[t]] # "active"
    /\ nextTxn = 0 => t = 1      \* the threads are alike: thread 1 goes first
    /\ nextTxn < MaxTxns
    /\ nextTxn' = nextTxn + 1
    /\ cur' = [cur EXCEPT ![t] = nextTxn + 1]
    /\ status' = [status EXCEPT ![nextTxn + 1] = "active"]
    /\ snap' = [snap EXCEPT ![nextTxn + 1] = status]
    /\ UNCHANGED << sqlvars, engvars >>
    /\ UNCHANGED << store, lock, poisoned, pc, call, last, nops, wset, seen, lastSet >>

\* MvccTransaction::commit on an active handle.
Commit(t) ==
    /\ pc[t] = "idle"
    /\ cur[t] # 0 /\ status[cur[t]] = "active"
    /\ status' = [status EXCEPT ![cur[t]] =
                    IF @ = "active" /\ MvccCommitResult.tag = "Ok"
                    THEN "committed" ELSE @]
    /\ last' = IF last.txn = cur[t] THEN NoCall ELSE last
    /\ UNCHANGED << sqlvars, engvars >>
    /\ UNCHANGED << store, lock, poisoned, pc, call, cur, nops, nextTxn,
                    snap, wset, seen, lastSet >>

\* MvccTransaction::rollback on an active handle.
Rollback(t) ==
    /\ pc[t] = "idle"
    /\ cur[t] # 0 /\ status[cur[t]] = "active"
    /\ status' = [status EXCEPT ![cur[t]] =
                    IF @ = "active" /\ MvccRollbackResult.tag = "Ok"
                    THEN "rolledback" ELSE @]
    /\ last' = IF last.txn = cur[t] THEN NoCall ELSE last
    /\ UNCHANGED << sqlvars, engvars >>
    /\ UNCHANGED << store, lock, poisoned, pc, call, cur, nops, nextTxn,
                    snap, wset, seen, lastSet >>

\* What set does once it holds the guard: engine.set(key, value), or the Err
\* of a poisoned lock.
SetEffect(x, key, value) ==
    IF LockResult(poisoned).tag = "Err"
    THEN /\ last' = Called(x, "set", key, value, LockResult(poisoned), FALSE)
         /\ UNCHANGED << store, wset, lastSet >>
    ELSE /\ store' = MvccSetStore(store, key, value)
         /\ last' = Called(x, "set", key, value,
                           MvccSetResult(store, key, value), FALSE)
         /\ IF MvccSetResult(store, key, value).tag = "Ok"
            THEN /\ wset' = [wset EXCEPT ![x] = @ \cup {key}]
                 /\ lastSet' = Engine_set(lastSet, key, [by |-> x, val |-> value])
            ELSE UNCHANGED << wset, lastSet >>

\* What get does once it holds the guard: engine.get(key), or the Err of a
\* poisoned lock.
GetEffect(x, key) ==
    LET r == IF LockResult(poisoned).tag = "Err"
             THEN LockResult(poisoned)
             ELSE MvccGetResult(store, key)
        wc == IF key \in DOMAIN lastSet
              THEN status[lastSet[key].by] = "committed" ELSE FALSE
    IN /\ last' = Called(x, "get", key, <<>>, r, wc)
       /\ seen' = IF seen = NoCall THEN Called(x, "get", key, <<>>, r, wc) ELSE seen

\* MvccTransaction::set, one uninterrupted run of the method: lock the
\* engine, engine.set(key, value), drop the guard.
DoSet(t, key, value) ==
    /\ pc[t] = "idle"
    /\ nops < MaxOps
    /\ LockIsFree(lock)
    /\ nops' = nops + 1
    /\ SetEffect(cur[t], key, value)
    /\ UNCHANGED << sqlvars, engvars >>
    /\ UNCHANGED << lock, poisoned, pc, call, cur, nextTxn, status, snap, seen >>

\* MvccTransaction::get, one uninterrupted run of the method: lock the
\* engine, engine.get(key), drop the guard.
DoGet(t, key) ==
    /\ pc[t] = "idle"
    /\ nops < MaxOps
    /\ LockIsFree(lock)
    /\ nops' = nops + 1
    /\ GetEffect(cur[t], key)
    /\ UNCHANGED << sqlvars, engvars >>
    /\ UNCHANGED << store, lock, poisoned, pc, call, cur, nextTxn,
                    status, snap, wset, lastSet >>

\* A client that keeps to the protocol calls get and set on an active handle.
Set(t, key, value) ==
    /\ cur[t] # 0 /\ status[cur[t]] = "active"
    /\ DoSet(t, key, value)

Get(t, key) ==
    /\ cur[t] # 0 /\ status[cur[t]] = "active"
    /\ DoGet(t, key)

Next ==
    \E t \in Threads :
        \/ Begin(t)
        \/ Commit(t)
        \/ Rollback(t)
        \/ \E key \in RawKeys : Get(t, key)
        \/ \E key \in RawKeys, value \in RawVals : Set(t, key, value)

Spec == Init /\ [][Next]_vars

\* ------------------------------------------- calls on a handle that has ended
\* Nothing in MvccTransaction stops a caller that still holds the handle after
\* commit() or rollback() returned: the methods take &self.
SetAfterEnd(t, key, value) ==
    /\ cur[t] # 0 /\ status[cur[t]] # "active"
    /\ DoSet(t, key, value)

GetAfterEnd(t, key) ==
    /\ cur[t] # 0 /\ status[cur[t]] # "active"
    /\ DoGet(t, key)

CommitAfterEnd(t) ==
    /\ pc[t] = "idle"
    /\ cur[t] # 0 /\ status[cur[t]] # "active"
    /\ nops < MaxOps
    /\ nops' = nops + 1
    /\ last' = Called(cur[t], "commit", <<>>, <<>>, MvccCommitResult, FALSE)
    /\ UNCHANGED << sqlvars, engvars >>
    /\ UNCHANGED << store, lock, poisoned, pc, call, cur, nextTxn,
                    status, snap, wset, seen, lastSet >>

RollbackAfterEnd(t) ==
    /\ pc[t] = "idle"
    /\ cur[t] # 0 /\ status[cur[t]] # "active"
    /\ nops < MaxOps
    /\ nops' = nops + 1
    /\ last' = Called(cur[t], "rollback", <<>>, <<>>, MvccRollbackResult, FALSE)
    /\ UNCHANGED << sqlvars, engvars >>
    /\ UNCHANGED << store, lock, poisoned, pc, call, cur, nextTxn,
                    status, snap, wset, seen, lastSet >>

NextAfterEnd ==
    \E t \in Threads :
        \/ \E key \in RawKeys : GetAfterEnd(t, key)
        \/ \E key \in RawKeys, value \in RawVals : SetAfterEnd(t, key, value)
        \/ CommitAfterEnd(t)
        \/ RollbackAfterEnd(t)

MisuseSpec == Init /\ [][Next \/ NextAfterEnd]_vars

\* ------------------------------------------------ commit, with its result
\* The clients of Spec, with what commit returned kept for inspection.
CommitCall(t) ==
    /\ pc[t] = "idle"
    /\ cur[t] # 0 /\ status[cur[t]] = "active"
    /\ status' = [status EXCEPT ![cur[t]] =
                    IF MvccCommitResult.tag = "Ok" THEN "committed" ELSE @]
    /\ last' = Called(cur[t], "commit", << >>, << >>, MvccCommitResult, FALSE)
    /\ UNCHANGED << sqlvars, engvars >>
    /\ UNCHANGED << store, lock, poisoned, pc, call, cur, nops, nextTxn,
                    snap, wset, seen, lastSet >>

CommitNext ==
    \E t \in Threads :
        \/ Begin(t)
        \/ CommitCall(t)
        \/ Rollback(t)
        \/ \E key \in RawKeys : Get(t, key)
        \/ \E key \in RawKeys, value \in RawVals : Set(t, key, value)

CommitSpec == Init /\ [][CommitNext]_vars

\* ------------------------------------------------------ stop and restart
\* The process stops with handles still active and starts again: Mvcc::new
\* wraps the engine as the stopped process left it in a fresh Mutex, and
\* does nothing else. The handles of the stopped process are gone.
Restart ==
    /\ \E x \in TxnIds : status[x] = "active"
    /\ status' = [x \in TxnIds |-> IF status[x] = "active" THEN "crashed" ELSE status[x]]
    /\ cur' = [t \in Threads |-> 0]
    /\ pc' = [t \in Threads |-> "idle"]
    /\ lock' = 0
    /\ poisoned' = FALSE
    /\ last' = NoCall
    /\ UNCHANGED << sqlvars, engvars >>
    /\ UNCHANGED << store, call, nops, nextTxn, snap, wset, seen, lastSet >>

CrashSpec == Init /\ [][Next \/ Restart]_vars

\* ------------------------------------------ the methods, step by step
\* The same methods with the Mutex in view: a thread calls a method and
\* reaches engine.lock() (waiting), gets the guard (locked), runs the engine
\* call (accessed), and returns, which drops the guard.

CallMethod(t, kind, key, value) ==
    /\ pc[t] = "idle"
    /\ cur[t] # 0 /\ status[cur[t]] = "active"
    /\ nops < MaxOps
    /\ nops' = nops + 1
    /\ pc' = [pc EXCEPT ![t] = "waiting"]
    /\ call' = [call EXCEPT ![t] = Called(cur[t], kind, key, value, NoRet, FALSE)]
    /\ UNCHANGED << sqlvars, engvars >>
    /\ UNCHANGED << store, lock, poisoned, last, cur, nextTxn,
                    status, snap, wset, seen, lastSet >>

CallGet(t) == \E key \in RawKeys : CallMethod(t, "get", key, <<>>)

CallSet(t) == \E key \in RawKeys, value \in RawVals : CallMethod(t, "set", key, value)

CallScanPrefix(t) == \E prefix \in RawKeys : CallMethod(t, "scan_prefix", prefix, <<>>)

\* self.engine.lock() returns: the thread holds the Mutex.
Acquire(t) ==
    /\ pc[t] = "waiting"
    /\ LockIsFree(lock)
    /\ lock' = t
    /\ pc' = [pc EXCEPT ![t] = "locked"]
    /\ UNCHANGED << sqlvars, engvars >>
    /\ UNCHANGED << store, poisoned, call, last, cur, nops, nextTxn,
                    status, snap, wset, seen, lastSet >>

AccessSet(t) ==
    /\ pc[t] = "locked"
    /\ call[t].kind = "set"
    /\ pc' = [pc EXCEPT ![t] = "accessed"]
    /\ SetEffect(call[t].txn, call[t].key, call[t].val)
    /\ call' = [call EXCEPT ![t].ret = last'.ret]
    /\ UNCHANGED << sqlvars, engvars >>
    /\ UNCHANGED << lock, poisoned, cur, nops, nextTxn, status, snap, seen >>

AccessGet(t) ==
    /\ pc[t] = "locked"
    /\ call[t].kind = "get"
    /\ pc' = [pc EXCEPT ![t] = "accessed"]
    /\ GetEffect(call[t].txn, call[t].key)
    /\ call' = [call EXCEPT ![t].ret = last'.ret]
    /\ UNCHANGED << sqlvars, engvars >>
    /\ UNCHANGED << store, lock, poisoned, cur, nops, nextTxn,
                    status, snap, wset, lastSet >>

AccessScanPrefix(t) ==
    /\ pc[t] = "locked"
    /\ call[t].kind = "scan_prefix"
    /\ pc' = [pc EXCEPT ![t] = "accessed"]
    /\ LET r == IF LockResult(poisoned).tag = "Err"
                THEN LockResult(poisoned)
                ELSE MvccScanPrefixResult(store, call[t].key)
       IN /\ last' = Called(call[t].txn, "scan_prefix", call[t].key, <<>>, r, FALSE)
          /\ call' = [call EXCEPT ![t].ret = r]
    /\ UNCHANGED << sqlvars, engvars >>
    /\ UNCHANGED << store, lock, poisoned, cur, nops, nextTxn,
                    status, snap, wset, seen, lastSet >>

\* The method returns, or unwinds from a panic: either way the guard is
\* dropped, and a guard dropped while panicking poisons the Mutex.
Release(t) ==
    /\ pc[t] = "accessed"
    /\ lock' = IF lock = t THEN 0 ELSE lock
    /\ poisoned' = (poisoned \/ call[t].ret.tag = "Panic")
    /\ pc' = [pc EXCEPT ![t] = IF call[t].ret.tag = "Panic" THEN "panicked" ELSE "idle"]
    /\ UNCHANGED << sqlvars, engvars >>
    /\ UNCHANGED << store, call, last, cur, nops, nextTxn,
                    status, snap, wset, seen, lastSet >>

LockNext ==
    \E t \in Threads :
        \/ Begin(t)
        \/ CallGet(t)
        \/ CallSet(t)
        \/ CallScanPrefix(t)
        \/ Acquire(t)
        \/ AccessSet(t)
        \/ AccessGet(t)
        \/ AccessScanPrefix(t)
        \/ Release(t)

LockSpec == Init /\ [][LockNext]_vars

\* Every thread that can take a step of its method eventually takes it: the
\* scheduler runs every runnable thread.
Step(t) == Acquire(t) \/ AccessSet(t) \/ AccessGet(t) \/ AccessScanPrefix(t) \/ Release(t)

FairLockSpec == LockSpec /\ \A t \in Threads : WF_vars(Step(t))

\* ------------------------------------------------ the engine on its own
\* One client with the engine in hand, as in engine.rs's test_point_opt:
\* set, delete and get called straight on the store handle.
Logged(op, key, value) == [op |-> op, key |-> key, val |-> value]

EngineSet(key, value) ==
    /\ Len(log) < MaxOps
    /\ store' = Engine_set(store, key, value)
    /\ log' = Append(log, Logged("set", key, value))
    /\ last' = Called(0, "set", key, value, OkUnit, FALSE)
    /\ UNCHANGED sqlvars
    /\ UNCHANGED << lock, poisoned, pc, call, cur, nops, nextTxn,
                    status, snap, wset, seen, lastSet >>

EngineDelete(key) ==
    /\ Len(log) < MaxOps
    /\ store' = Engine_delete(store, key)
    /\ log' = Append(log, Logged("delete", key, << >>))
    /\ last' = Called(0, "delete", key, << >>, OkUnit, FALSE)
    /\ UNCHANGED sqlvars
    /\ UNCHANGED << lock, poisoned, pc, call, cur, nops, nextTxn,
                    status, snap, wset, seen, lastSet >>

EngineGet(key) ==
    /\ last' = Called(0, "get", key, << >>, Engine_get(store, key), FALSE)
    /\ UNCHANGED << sqlvars, engvars >>
    /\ UNCHANGED << store, lock, poisoned, pc, call, cur, nops, nextTxn,
                    status, snap, wset, seen, lastSet >>

EngineNext ==
    \/ \E key \in RawKeys, value \in RawVals : EngineSet(key, value)
    \/ \E key \in RawKeys : EngineDelete(key)
    \/ \E key \in RawKeys : EngineGet(key)

EngineSpec == Init /\ [][EngineNext]_vars

\* ------------------------------------------------------ Session::execute
\* Session::execute parses the statement, begins a transaction, runs the
\* plan's executor on it, and commits on Ok or rolls back on Err; commit and
\* rollback touch nothing. Every txn.get, txn.set and txn.scan_prefix of the
\* executor is one step: one hold of the Mutex.

\* The statements of the other sessions that are in progress learn that the
\* store was written under them.
Disturb(t, wrote) ==
    [s \in Threads |->
        IF s # t /\ wrote /\ stmt[s].kind # "none"
        THEN [stmt[s] EXCEPT !.alone = FALSE] ELSE stmt[s]]

Begun(kind, name) ==
    [NoStmt EXCEPT !.kind = kind, !.name = name, !.pre = store, !.want = done.rows]

\* The statement goes on to its next store operation.
GoOn(t, st, at, wrote) ==
    /\ pc' = [pc EXCEPT ![t] = at]
    /\ stmt' = [Disturb(t, wrote) EXCEPT ![t] = st]
    /\ UNCHANGED << fin, done >>

\* The written rows by first-column key, later rows over earlier ones.
RECURSIVE Inserted(_, _, _)
Inserted(rows, name, written) ==
    IF written = << >> THEN rows
    ELSE Inserted(Engine_set(rows, Key_Row(name, Head(written)[1]), Head(written)),
                  name, Tail(written))

\* execute returns ret to the caller, after commit (Ok) or rollback (Err);
\* a panic unwinds through execute and ends the session's thread.
Return(t, st, ret, wrote) ==
    /\ pc' = [pc EXCEPT ![t] = IF ret.tag = "Panic" THEN "panicked" ELSE "idle"]
    /\ stmt' = [Disturb(t, wrote) EXCEPT ![t] = NoStmt]
    /\ fin' = [sess |-> t, kind |-> st.kind, name |-> st.name,
               schema |-> st.schema, row |-> st.row, ret |-> ret,
               pre |-> st.pre, post |-> store', alone |-> st.alone, want |-> st.want]
    /\ done' = IF ret.tag # "Ok" THEN done
               ELSE IF st.kind = "create"
                    THEN [done EXCEPT !.creates[st.name] = @ + 1]
               ELSE IF st.kind = "insert"
                    THEN [done EXCEPT !.rows = Inserted(@, st.name, st.written)]
               ELSE done

\* CREATE TABLE, up to the get of create_table's existence check.
ExecuteCreateTable(t) ==
    \E name \in TableNames, columns \in AstColumns :
        LET st == [Begun("create", name) EXCEPT !.schema = Planner_build_table(name, columns)]
            e == KV_create_table_check(KV_get_table(store, poisoned, name), st.schema)
        IN /\ pc[t] = "idle"
           /\ nstmts < MaxStmts
           /\ nstmts' = nstmts + 1
           /\ UNCHANGED << store, lock, poisoned >>
           /\ IF e # "" THEN Return(t, st, ErrResult(e), FALSE)
              ELSE GoOn(t, st, "create_table", FALSE)
           /\ UNCHANGED << kvvars, engvars >>

\* create_table's set of the schema, and the return.
CreateTableSet(t) ==
    LET st == stmt[t]
        key == Key_Table(st.name)
        value == SerializeTable(st.schema)
        r == TxnSetResult(store, poisoned, key, value)
    IN /\ pc[t] = "create_table"
       /\ store' = TxnSetStore(store, poisoned, key, value)
       /\ UNCHANGED << lock, poisoned, nstmts >>
       /\ IF r.tag = "Err" THEN Return(t, st, ErrResult(r.opt), FALSE)
          ELSE Return(t, st, OkCreateTable, TRUE)
       /\ UNCHANGED << kvvars, engvars >>

\* INSERT, up to Insert::execute's must_get_table.
ExecuteInsert(t) ==
    \E name \in TableNames, columns \in InsertColumns, values \in InsertValues :
        LET r == must_get_table(store, poisoned, name)
            st == [Begun("insert", name) EXCEPT !.columns = columns,
                        !.values = values, !.table = r.table]
        IN /\ pc[t] = "idle"
           /\ nstmts < MaxStmts
           /\ nstmts' = nstmts + 1
           /\ UNCHANGED << store, lock, poisoned >>
           /\ IF r.tag = "Err" THEN Return(t, st, ErrResult(r.err), FALSE)
              ELSE GoOn(t, st, "insert", FALSE)
           /\ UNCHANGED << kvvars, engvars >>

\* The next row of the INSERT: pad_row or make_row against the table read at
\* the start, then create_row up to its set: must_get_table again and the
\* checks of the row against the table just read.
InsertRow(t) ==
    LET st == stmt[t]
        made == InsertRowOf(st.table, st.columns, st.values[Len(st.written) + 1])
        r == must_get_table(store, poisoned, st.name)
        e == KV_create_row_check(r.table, made.row)
    IN /\ pc[t] = "insert"
       /\ UNCHANGED << store, lock, poisoned, nstmts >>
       /\ IF made.tag = "Err" THEN Return(t, st, ErrResult(made.err), FALSE)
          ELSE IF r.tag = "Err" THEN Return(t, st, ErrResult(r.err), FALSE)
          ELSE IF e = "index out of bounds" THEN Return(t, st, PanicResult(e), FALSE)
          ELSE IF e # "" THEN Return(t, st, ErrResult(e), FALSE)
          ELSE GoOn(t, [st EXCEPT !.row = made.row], "create_row", FALSE)
       /\ UNCHANGED << kvvars, engvars >>

\* create_row's set of the row under Key::Row(table, row[0]); after the last
\* row the INSERT returns the count.
CreateRowSet(t) ==
    LET st == stmt[t]
        key == Key_Row(st.name, st.row[1])
        value == SerializeRow(st.row)
        r == TxnSetResult(store, poisoned, key, value)
        st2 == [st EXCEPT !.written = Append(@, st.row), !.row = << >>]
    IN /\ pc[t] = "create_row"
       /\ store' = TxnSetStore(store, poisoned, key, value)
       /\ UNCHANGED << lock, poisoned, nstmts >>
       /\ IF r.tag = "Err" THEN Return(t, st, ErrResult(r.opt), FALSE)
          ELSE IF Len(st2.written) = Len(st.values)
               THEN Return(t, st2, OkInsert(Len(st2.written)), TRUE)
          ELSE GoOn(t, st2, "insert", TRUE)
       /\ UNCHANGED << kvvars, engvars >>

\* SELECT, up to the Scan executor's must_get_table.
ExecuteSelect(t) ==
    \E name \in TableNames :
        LET r == must_get_table(store, poisoned, name)
            st == [Begun("select", name) EXCEPT !.table = r.table]
        IN /\ pc[t] = "idle"
           /\ nstmts < MaxStmts
           /\ nstmts' = nstmts + 1
           /\ UNCHANGED << store, lock, poisoned >>
           /\ IF r.tag = "Err" THEN Return(t, st, ErrResult(r.err), FALSE)
              ELSE GoOn(t, st, "scan_table", FALSE)
           /\ UNCHANGED << kvvars, engvars >>

\* scan_table: txn.scan_prefix(KeyPrefix::Row(table)), the rows decoded. A
\* panic under the guard poisons the Mutex.
ScanTable(t) ==
    LET st == stmt[t]
        r == IF LockResult(poisoned).tag = "Err" THEN LockResult(poisoned)
             ELSE MvccScanPrefixResult(store, KeyPrefix_Row(st.name))
    IN /\ pc[t] = "scan_table"
       /\ poisoned' = (poisoned \/ r.tag = "Panic")
       /\ UNCHANGED << store, lock, nstmts >>
       /\ IF r.tag = "Panic" THEN Return(t, st, PanicResult(r.opt), FALSE)
          ELSE IF r.tag = "Err" THEN Return(t, st, ErrResult(r.opt), FALSE)
          ELSE Return(t, st, OkScan([i \in 1..Len(r.val) |-> DeserializeRow(r.val[i].value)]), FALSE)
       /\ UNCHANGED << kvvars, engvars >>

SqlNext ==
    \E t \in Threads :
        \/ ExecuteCreateTable(t)
        \/ CreateTableSet(t)
        \/ ExecuteInsert(t)
        \/ InsertRow(t)
        \/ CreateRowSet(t)
        \/ ExecuteSelect(t)
        \/ ScanTable(t)

SqlSpec == Init /\ [][SqlNext]_vars

\* ------------------------------------- KVTransaction, method by method
\* One transaction and its create_table, create_row and scan_table calls,
\* each call run from entry to return with nothing in between.
Returned(t, kind, name, schema, row, ret) ==
    /\ fin' = [sess |-> t, kind |-> kind, name |-> name, schema |-> schema,
               row |-> row, ret |-> ret, pre |-> store, post |-> store',
               alone |-> TRUE, want |-> done.rows]
    /\ pc' = [pc EXCEPT ![t] = IF ret.tag = "Panic" THEN "panicked" ELSE "idle"]

KvCreateTable(t) ==
    \E name \in TableNames, columns \in AstColumns :
        LET table == Planner_build_table(name, columns)
            e == KV_create_table_check(KV_get_table(store, poisoned, name), table)
            key == Key_Table(name)
            value == SerializeTable(table)
            r == TxnSetResult(store, poisoned, key, value)
            ret == IF e # "" THEN ErrResult(e)
                   ELSE IF r.tag = "Err" THEN ErrResult(r.opt) ELSE OkDone
        IN /\ pc[t] = "idle"
           /\ nstmts < MaxStmts
           /\ nstmts' = nstmts + 1
           /\ store' = IF e # "" THEN store ELSE TxnSetStore(store, poisoned, key, value)
           /\ Returned(t, "create_table", name, table, << >>, ret)
           /\ done' = IF ret.tag = "Ok" THEN [done EXCEPT !.creates[name] = @ + 1] ELSE done
           /\ UNCHANGED << lock, poisoned, stmt >>
           /\ UNCHANGED << kvvars, engvars >>

KvCreateRow(t) ==
    \E name \in TableNames, row \in Rows :
        LET got == must_get_table(store, poisoned, name)
            e == IF got.tag = "Err" THEN got.err ELSE KV_create_row_check(got.table, row)
            key == Key_Row(name, row[1])
            value == SerializeRow(row)
            r == TxnSetResult(store, poisoned, key, value)
            ret == IF e = "index out of bounds" /\ got.tag = "Ok" THEN PanicResult(e)
                   ELSE IF e # "" THEN ErrResult(e)
                   ELSE IF r.tag = "Err" THEN ErrResult(r.opt) ELSE OkDone
        IN /\ pc[t] = "idle"
           /\ nstmts < MaxStmts
           /\ nstmts' = nstmts + 1
           /\ store' = IF e # "" THEN store ELSE TxnSetStore(store, poisoned, key, value)
           /\ Returned(t, "create_row", name, got.table, row, ret)
           /\ done' = IF ret.tag = "Ok" THEN [done EXCEPT !.rows = Inserted(@, name, << row >>)]
                      ELSE done
           /\ UNCHANGED << lock, poisoned, stmt >>
           /\ UNCHANGED << kvvars, engvars >>

KvScanTable(t) ==
    \E name \in TableNames :
        LET r == IF LockResult(poisoned).tag = "Err" THEN LockResult(poisoned)
                 ELSE MvccScanPrefixResult(store, KeyPrefix_Row(name))
            ret == IF r.tag = "Panic" THEN PanicResult(r.opt)
                   ELSE IF r.tag = "Err" THEN ErrResult(r.opt)
                   ELSE OkScan([i \in 1..Len(r.val) |-> DeserializeRow(r.val[i].value)])
        IN /\ pc[t] = "idle"
           /\ nstmts < MaxStmts
           /\ nstmts' = nstmts + 1
           /\ poisoned' = (poisoned \/ r.tag = "Panic")
           /\ store' = store
           /\ Returned(t, "scan_table", name, NoTable, << >>, ret)
           /\ UNCHANGED << lock, stmt, done >>
           /\ UNCHANGED << kvvars, engvars >>

KvNext ==
    \E t \in Threads :
        \/ KvCreateTable(t)
        \/ KvCreateRow(t)

KvSpec == Init /\ [][KvNext]_vars

KvScanSpec == Init /\ [][KvNext \/ \E t \in Threads : KvScanTable(t)]_vars

\* ------------------------------------------------- the transaction contract
\* The latest set of the key the latest call names: its handle and value.
LastWriter == IF last.key \in DOMAIN lastSet THEN lastSet[last.key].by ELSE 0
LastWritten == IF last.key \in DOMAIN lastSet THEN lastSet[last.key].val ELSE <<>>

\* The handles other than x that have set key.
OtherWriters(x, key) == { y \in TxnIds \ {x} : key \in wset[y] }

\* C1. Snapshot isolation against concurrent writers: a get by T2 on a key T2
\* did not set never returns the value set by a handle T1 that had not
\* committed when T2 began (T1 was active then, or began later).
SnapshotIsolation ==
    ( /\ last.kind = "get"
      /\ status[last.txn] = "active"
      /\ LastWriter \notin {0, last.txn}
      /\ last.key \notin wset[last.txn]
      /\ snap[last.txn][LastWriter] \in {"none", "active"} )
    => last.ret # OkSome(LastWritten)

\* C2 (the get half). A get by a handle that began after the latest writer of
\* the key committed returns that writer's value.
CommittedVisibleToGet ==
    ( /\ last.kind = "get"
      /\ status[last.txn] = "active"
      /\ LastWriter # 0
      /\ snap[last.txn][LastWriter] = "committed" )
    => last.ret = OkSome(LastWritten)

WitnessCommittedVisibleToGet ==
    /\ last.kind = "get"
    /\ status[last.txn] = "active"
    /\ LastWriter # 0
    /\ snap[last.txn][LastWriter] = "committed"
    /\ last.ret = OkSome(LastWritten)

\* C3. Rollback atomicity: a handle that began after T rolled back never gets
\* a value T set, and where T is the first handle of the run (the store was
\* empty before it began) and nobody else set the key, it gets "not found".
RollbackAtomicity ==
    /\ ( /\ last.kind = "get"
         /\ status[last.txn] = "active"
         /\ LastWriter \notin {0, last.txn}
            /\ last.key \notin wset[last.txn]
         /\ snap[last.txn][LastWriter] = "rolledback" )
       => last.ret # OkSome(LastWritten)
    /\ ( /\ last.kind = "get"
         /\ status[last.txn] = "active"
         /\ last.txn # 1
         /\ snap[last.txn][1] = "rolledback"
         /\ OtherWriters(1, last.key) = {} )
       => last.ret = OkNone

\* C4. Write-write conflict: a set by T2 on a key that a handle T1, active when
\* T2 began and still active, has set fails with Conflict and writes nothing;
\* a set on a key whose other writers all ended before the handle began is Ok.
WriteWriteConflict ==
    /\ ( /\ last.kind = "set"
         /\ status[last.txn] = "active"
         /\ \E y \in OtherWriters(last.txn, last.key) :
                snap[last.txn][y] = "active" /\ status[y] = "active" )
       => (last.ret = Err("Conflict") /\ LastWriter # last.txn)
    /\ ( /\ last.kind = "set"
         /\ status[last.txn] = "active"
         /\ \A y \in OtherWriters(last.txn, last.key) :
                snap[last.txn][y] \in {"committed", "rolledback"} )
       => last.ret = OkUnit

StableSnapshot ==
    ( /\ last.kind = "get"
      /\ status[last.txn] = "active"
      /\ seen.kind = "get"
      /\ seen.txn = last.txn
      /\ seen.key = last.key
      /\ last.key \notin wset[last.txn]
      /\ LastWriter # 0
      /\ snap[last.txn][LastWriter] = "none"
      /\ last.wcommitted )
    => last.ret = seen.ret

\* C8. Terminal end states: a get, set, commit or rollback on a handle that
\* has committed or rolled back fails with a protocol-misuse error.
TerminalEndStates ==
    ( /\ last.kind \in {"get", "set", "commit", "rollback"}
      /\ status[last.txn] \in {"committed", "rolledback"} )
    => last.ret = Err("ProtocolMisuse")

\* ------------------------------------------------------ scans and the map
\* Byte-lexicographic order on byte strings, the order of Vec<u8>.
RECURSIVE BytesLess(_, _)
BytesLess(a, b) ==
    IF b = << >> THEN FALSE
    ELSE IF a = << >> THEN TRUE
    ELSE IF Head(a) # Head(b) THEN Head(a) < Head(b)
    ELSE BytesLess(Tail(a), Tail(b))

StartsWith(k, p) == Len(p) <= Len(k) /\ SubSeq(k, 1, Len(p)) = p

\* The keys of a set in ascending order.
RECURSIVE Ascending(_)
Ascending(ks) ==
    IF ks = {} THEN << >>
    ELSE LET least == CHOOSE k \in ks : \A j \in ks \ {k} : BytesLess(k, j)
         IN << least >> \o Ascending(ks \ {least})

\* What a prefix scan owes its caller: one entry for every key under the
\* prefix that get finds, with the value get returns, in ascending key order.
VisibleEntries(s, p) ==
    LET ks == { k \in DOMAIN s : StartsWith(k, p) /\ MvccGetResult(s, k).opt = "Some" }
        order == Ascending(ks)
    IN [i \in 1..Len(order) |-> [key |-> order[i], value |-> MvccGetResult(s, order[i]).val]]

\* C11. scan_prefix agrees with get: every scan_prefix(p) returns exactly the
\* entries (k, v) with k under p and get(k) = v, in ascending key order.
ScanPrefixAgreesWithGet ==
    [][ (last' # last /\ last'.kind = "scan_prefix")
        => last'.ret = OkSome(VisibleEntries(store, last'.key)) ]_vars

\* The calls of the log on one key, and what the latest of them leaves.
CallsOn(k) == { i \in 1..Len(log) : log[i].key = k }

LatestOn(k) == log[CHOOSE i \in CallsOn(k) : \A j \in CallsOn(k) : j <= i]

\* C12. The byte store's point operations behave as a map: after any
\* sequence of set and delete calls, get(k) returns the value of the latest
\* set(k, _) when no delete(k) came after it, and None when k was never set
\* or its latest call was delete(k).
PointOpsBehaveAsMap ==
    last.kind = "get"
    => last.ret = IF CallsOn(last.key) = {} THEN OkNone
                  ELSE IF LatestOn(last.key).op = "delete" THEN OkNone
                  ELSE OkSome(LatestOn(last.key).val)

\* The empty key was set to a value, deleted, set again to the empty value,
\* and read back.
WitnessPointOpsBehaveAsMap ==
    /\ last.kind = "get" /\ last.key = << >> /\ last.ret = OkSome(<< >>)
    /\ Len(log) = 3
    /\ log[1] = Logged("set", << >>, <<49>>)
    /\ log[2] = Logged("delete", << >>, << >>)
    /\ log[3] = Logged("set", << >>, << >>)

\* C13. Commit never fails and never re-validates: commit on an active
\* handle returns Ok and ends the handle as committed, whatever the other
\* handles have set meanwhile, and the step of commit leaves the store as
\* it was.
CommitNeverFails ==
    /\ [](last.kind = "commit"
            => last.ret = OkUnit /\ status[last.txn] = "committed")
    /\ [][ (last' # last /\ last'.kind = "commit") => store' = store ]_vars

\* A handle committed after another handle had set one of the keys it set.
WitnessCommitNeverFails ==
    /\ last.kind = "commit" /\ last.ret = OkUnit
    /\ \E y \in TxnIds \ {last.txn} :
          /\ wset[y] \cap wset[last.txn] # {}
          /\ snap[last.txn][y] = "active" \/ snap[y][last.txn] = "active"

\* The handles that have set a key.
WritersOf(k) == { y \in TxnIds : k \in wset[y] }

\* C14. Crash recovery: when every handle that ever set a key was still
\* active when the process stopped, a handle begun after the restart does
\* not find the key: the writes of the stopped transactions are gone.
CrashRecovery ==
    ( /\ last.kind = "get"
      /\ status[last.txn] = "active"
      /\ WritersOf(last.key) # {}
      /\ \A y \in WritersOf(last.key) : snap[last.txn][y] = "crashed" )
    => last.ret = OkNone

\* The rows a Scan result holds.
RowsOf(ret) == { ret.rows[i] : i \in 1..Len(ret.rows) }

\* C2. Committed writes are visible to later transactions, at the SQL level:
\* a select that began after successful executes had inserted rows into the
\* table, and ran with no other session writing under it, returns Ok with
\* every one of those rows.
SelectReturnsInserted ==
    ( /\ fin.kind = "select"
      /\ fin.alone
      /\ fin.want # << >> )
    => /\ fin.ret.tag = "Ok"
       /\ \A k \in DOMAIN fin.want : fin.want[k] \in RowsOf(fin.ret)

\* One store is the other with exactly one key set to a value.
OneKeyWritten(pre, post, key, value) ==
    /\ DOMAIN post = DOMAIN pre \cup {key}
    /\ post[key] = value
    /\ \A k \in DOMAIN pre \ {key} : post[k] = pre[k]

WrongColumns(table, row) ==
    { i \in 1..Len(table.columns) :
        /\ i <= Len(row)
        /\ \/ row[i] = Null /\ ~table.columns[i].nullable
           \/ row[i] # Null /\ row[i].tag # table.columns[i].datatype }

\* C17. create_row validates before writing: when the table does not exist
\* or the row fills a column wrongly it returns an error and the store is as
\* before; the store changes only when the row fills every column of the
\* table rightly, and then by the one key of the table name and the row's
\* first value, set to the row.
CreateRowValidates ==
    fin.kind = "create_row"
    => LET found == KV_get_table(fin.pre, FALSE, fin.name)
       IN /\ (~found.found \/ WrongColumns(found.table, fin.row) # {})
                => fin.ret.tag = "Err" /\ fin.post = fin.pre
          /\ fin.ret.tag # "Ok" => fin.post = fin.pre
          /\ fin.ret.tag = "Ok"
                => /\ found.found
                   /\ Len(fin.row) >= Len(found.table.columns)
                   /\ WrongColumns(found.table, fin.row) = {}
                   /\ OneKeyWritten(fin.pre, fin.post, Key_Row(fin.name, fin.row[1]),
                                    SerializeRow(fin.row))

\* A row whose first column is right was refused for the data type of its
\* second column, and nothing was written.
WitnessCreateRowValidates ==
    /\ fin.kind = "create_row"
    /\ fin.ret = ErrResult("column type mismatch")
    /\ Len(fin.row) = 2
    /\ WrongColumns(fin.schema, fin.row) = {2}
    /\ fin.post = fin.pre

\* The rows that successful create_row calls have left for a table: the
\* latest one for every first-column value.
LatestRows(name) ==
    { done.rows[k] : k \in { j \in DOMAIN done.rows :
                               \E v \in RowValues : j = Key_Row(name, v) } }

\* C18. One stored row per first-column value: after successful create_row
\* calls on a table, scan_table returns exactly the latest successfully
\* created row for every first-column value of the table, each once.
OneRowPerFirstColumn ==
    (fin.kind = "scan_table" /\ LatestRows(fin.name) # {})
    => /\ fin.ret.tag = "Ok"
       /\ RowsOf(fin.ret) = LatestRows(fin.name)
       /\ Len(fin.ret.rows) = Cardinality(LatestRows(fin.name))

\* C7. No partial writes on error: when a statement run by Session::execute
\* returns an error, and no other session wrote while it ran, the store is
\* as it was when the statement began.
NoPartialWrites ==
    ( /\ fin.kind \in {"create", "insert", "select"}
      /\ fin.ret.tag = "Err"
      /\ fin.alone )
    => fin.post = fin.pre

\* C9. Check-and-write atomicity: create_table's existence check and its
\* write are one unit, so of all the create_table calls for one table name
\* at most one succeeds.
CheckAndWriteAtomicity ==
    \A n \in TableNames : done.creates[n] <= 1

\* The threads that hold a guard: between lock() returning and the method
\* returning.
Holders == { t \in Threads : pc[t] \in {"locked", "accessed"} }

\* C10. Mutual exclusion and progress on the store lock: at most one thread
\* is inside a store-accessing method at a time, and it is the thread the
\* Mutex records as its holder; the lock is only taken when it is free, so no
\* method takes it while it is held; the engine is only touched by the holder
\* between taking and dropping the guard; and with every thread scheduled,
\* a thread waiting in lock() gets the guard and every method that got the
\* guard returns (or unwinds) and drops it.
MutualExclusionAndProgress ==
    /\ [](Cardinality(Holders) <= 1 /\ \A t \in Holders : lock = t)
    /\ [][ /\ (lock' # lock /\ lock' # 0) => lock = 0
           /\ (last' # last) => (lock # 0 /\ lock' = lock /\ pc[lock] = "locked"
                                 /\ pc'[lock] = "accessed") ]_vars
    /\ \A t \in Threads :
          /\ (pc[t] = "waiting") ~> (pc[t] = "locked")
          /\ (pc[t] = "locked") ~> (pc[t] \in {"idle", "panicked"} /\ lock # t)

\* A thread waits in lock() while the other thread holds the guard of a set.
WitnessMutualExclusionAndProgress ==
    \E t \in Threads, u \in Threads :
        /\ t # u
        /\ pc[t] = "waiting"
        /\ pc[u] = "accessed" /\ call[u].kind = "set" /\ lock = u

====
